---- MODULE Spec2Model ----
(***************************************************************************)
(* termigo: a WebSocket bridge to interactive Docker containers.           *)
(*                                                                         *)
(* Spec / LiveSpec model main() and handleWebSocket(): the admission       *)
(* counter maxConnections, the activeSessions WaitGroup, the container     *)
(* lifecycle of every request and the shutdown sequence.  Every access to  *)
(* a shared variable is one step; maxConnections-- and maxConnections++    *)
(* are unsynchronised, so each is a load followed by a store.              *)
(*                                                                         *)
(* AdmissionSpec is the serving process with one request more than the    *)
(* cap, on a healthy transport and backend, while main blocks on <-stop.   *)
(*                                                                         *)
(* OutboundSpec and InboundSpec model the data path of one attached        *)
(* session byte by byte: readContainerOutput (and streamLogs of the log    *)
(* variant), and readWebSocketInput.                                       *)
(***************************************************************************)
EXTENDS Integers, Sequences, FiniteSets, TLC

\* ------------------------------------------------------------------ bounds
\* Requests that arrive in AdmissionSpec (one more than the cap).
NumSessions == 4

\* Requests that arrive in Spec and LiveSpec.
NumFaulty == 2

\* Chunks the container output delivers, and bytes per chunk (OutboundSpec).
MaxChunks == 2
MaxChunkLen == 2

\* Messages the client sends, and bytes per message (InboundSpec).
MaxMsgs == 3
MaxMsgLen == 1

\* var maxConnections = 3
InitialMaxConnections == 3

Sessions == 1..NumSessions

VARIABLES
    \* --- process-wide state
    maxConnections,     \* the package-level int
    activeSessions,     \* counter of the sync.WaitGroup
    mainpc,             \* position of main()
    ctxDone,            \* cancel() has been called on the shared ctx
    listening,          \* the http.Server still accepts connections
    cliClosed,          \* cli.Close() has run
    shutdownRequested,  \* SIGINT/SIGTERM was delivered on stop
    \* --- the environment
    clients,            \* number of requests the clients will make
    faults,             \* the transport and the backend may fail
    \* --- per request
    pc,                 \* position of handleWebSocket
    reg,                \* value loaded by the pending -- or ++
    containerID,        \* startInteractiveContainer returned an ID
    env,                \* the container at the backend
    out,                \* the readContainerOutput goroutine
    stdinClosed,        \* containerStdin.Close() has run
    teardownCalls,      \* invocations of stopAndRemoveContainer
    removeCalls,        \* ContainerRemove calls made by them
    diagnostics,        \* diagnostic WriteMessage calls of the handler
    \* --- data path of one attached session (OutboundSpec, InboundSpec)
    variant,            \* "terminal" (readContainerOutput) or "logs" (streamLogs)
    stream,             \* chunks the container output will still deliver
    delivered,          \* chunks Read has returned so far
    buf,                \* bytes buffered by the bufio.Scanner
    scanErr,            \* the scanner's sticky read error
    token,              \* token handed to WriteMessage, or the logs chunk
    opc,                \* position of the outbound loop
    wsOut,              \* messages written to the WebSocket
    wsIn,               \* messages the client will still send
    received,           \* messages ReadMessage has returned so far
    message,            \* the message being framed
    ipc,                \* position of the inbound loop
    stdin               \* writes received by the container's stdin

envVars == <<clients, faults>>
procVars == <<maxConnections, activeSessions, mainpc, ctxDone, listening,
              cliClosed, shutdownRequested, envVars>>
sessVars == <<pc, reg, containerID, env, out, stdinClosed, teardownCalls,
              removeCalls, diagnostics>>
relayVars == <<variant, stream, delivered, buf, scanErr, token, opc, wsOut,
               wsIn, received, message, ipc, stdin>>
vars == <<procVars, sessVars, relayVars>>

\* The process is gone: main returned, or log.Fatalf called os.Exit(1).
Exited == mainpc \in {"exited", "fatal"}

\* The request holds a ticket: its decrement is stored, its increment is not.
HoldsTicket(s) ==
    pc[s] \in {"add", "prov", "attach", "relay", "teardown", "wgdone", "inc", "incw"}

\* The request is counted by the WaitGroup.
Registered(s) == pc[s] \in {"prov", "attach", "relay", "teardown", "wgdone"}

\* The handler has returned.
Returned(s) == pc[s] \in {"denied", "noupgrade", "done"}

\* The handler runs on a connection the server still tracks (not hijacked).
Tracked(s) == pc[s] = "upgrade"

Holders == {s \in Sessions : HoldsTicket(s)}
Relaying == {s \in Sessions : pc[s] = "relay"}

\* Results of a call that may fail: success, and failure when faults occur.
Results == IF faults THEN BOOLEAN ELSE {TRUE}

\* ------------------------------------------------------------ handleWebSocket
\* if maxConnections <= 0 { http.Error(busy); return }
\* Requests are numbered in order of arrival; the listener must still accept.
CapacityCheck(s) ==
    /\ ~Exited /\ listening
    /\ pc[s] = "idle"
    /\ s <= clients
    /\ \A r \in Sessions : r < s => pc[r] # "idle"
    /\ pc' = [pc EXCEPT ![s] = IF maxConnections <= 0 THEN "denied" ELSE "upgrade"]
    /\ UNCHANGED <<procVars, reg, containerID, env, out, stdinClosed,
                   teardownCalls, removeCalls, diagnostics, relayVars>>

\* conn, err := upgrader.Upgrade(w, r, nil); on error the handler returns.
Upgrade(s) ==
    /\ ~Exited
    /\ pc[s] = "upgrade"
    /\ \E ok \in Results : pc' = [pc EXCEPT ![s] = IF ok THEN "dec" ELSE "noupgrade"]
    /\ UNCHANGED <<procVars, reg, containerID, env, out, stdinClosed,
                   teardownCalls, removeCalls, diagnostics, relayVars>>

\* maxConnections-- : the load
DecrementLoad(s) ==
    /\ ~Exited
    /\ pc[s] = "dec"
    /\ reg' = [reg EXCEPT ![s] = maxConnections]
    /\ pc' = [pc EXCEPT ![s] = "decw"]
    /\ UNCHANGED <<procVars, containerID, env, out, stdinClosed,
                   teardownCalls, removeCalls, diagnostics, relayVars>>

\* maxConnections-- : the store
DecrementStore(s) ==
    /\ ~Exited
    /\ pc[s] = "decw"
    /\ maxConnections' = reg[s] - 1
    /\ reg' = [reg EXCEPT ![s] = 0]
    /\ pc' = [pc EXCEPT ![s] = "add"]
    /\ UNCHANGED <<activeSessions, mainpc, ctxDone, listening, cliClosed,
                   shutdownRequested, envVars, containerID, env, out, stdinClosed,
                   teardownCalls, removeCalls, diagnostics, relayVars>>

\* activeSessions.Add(1)
ActiveSessionsAdd(s) ==
    /\ ~Exited
    /\ pc[s] = "add"
    /\ activeSessions' = activeSessions + 1
    /\ pc' = [pc EXCEPT ![s] = "prov"]
    /\ UNCHANGED <<maxConnections, mainpc, ctxDone, listening, cliClosed,
                   shutdownRequested, envVars, reg, containerID, env, out, stdinClosed,
                   teardownCalls, removeCalls, diagnostics, relayVars>>

\* Results of ContainerCreate followed by ContainerStart: a call made with the
\* cancelled ctx fails; otherwise the backend decides.
ProvisionOutcomes == IF ctxDone THEN {"createFailed"}
                     ELSE IF faults THEN {"createFailed", "startFailed", "ok"}
                     ELSE {"ok"}

\* Mutant of startInteractiveContainer: the container cleanup is deferred
\* before provisioning, so it also runs when provisioning failed.
startInteractiveContainerCleanupBefore(s) ==
    /\ ~Exited
    /\ pc[s] = "prov"
    /\ \E r \in ProvisionOutcomes :
        /\ env' = [env EXCEPT ![s] = CASE r = "createFailed" -> "none"
                                       [] r = "startFailed" -> "created"
                                       [] r = "ok" -> "running"]
        /\ containerID' = [containerID EXCEPT ![s] = (r = "ok")]
        /\ diagnostics' = [diagnostics EXCEPT ![s] = IF r = "ok" THEN @ ELSE @ + 1]
        /\ pc' = [pc EXCEPT ![s] = IF r = "ok" THEN "attach" ELSE "teardown"]
    /\ UNCHANGED <<procVars, reg, out, stdinClosed, teardownCalls, removeCalls, relayVars>>

\* containerID, err := startInteractiveContainer(ctx, cli); on error one
\* diagnostic message is written and the handler returns (its defers run).
startInteractiveContainer(s) ==
    /\ ~Exited
    /\ pc[s] = "prov"
    /\ \E r \in ProvisionOutcomes :
        /\ env' = [env EXCEPT ![s] = CASE r = "createFailed" -> "none"
                                       [] r = "startFailed" -> "created"
                                       [] r = "ok" -> "running"]
        /\ containerID' = [containerID EXCEPT ![s] = (r = "ok")]
        /\ diagnostics' = [diagnostics EXCEPT ![s] = IF r = "ok" THEN @ ELSE @ + 1]
        /\ pc' = [pc EXCEPT ![s] = IF r = "ok" THEN "attach" ELSE "wgdone"]
    /\ UNCHANGED <<procVars, reg, out, stdinClosed, teardownCalls, removeCalls, relayVars>>

\* Mutant of ContainerAttach: the container cleanup is deferred only after a
\* successful attach, so an attach failure returns without it.
ContainerAttachCleanupAfter(s) ==
    /\ ~Exited
    /\ pc[s] = "attach"
    /\ \E ok \in (IF ctxDone THEN {FALSE} ELSE Results) :
        /\ out' = [out EXCEPT ![s] = IF ok THEN "run" ELSE "none"]
        /\ diagnostics' = [diagnostics EXCEPT ![s] = IF ok THEN @ ELSE @ + 1]
        /\ pc' = [pc EXCEPT ![s] = IF ok THEN "relay" ELSE "wgdone"]
    /\ UNCHANGED <<procVars, reg, containerID, env, stdinClosed, teardownCalls, removeCalls,
                   relayVars>>

\* attachResp, err := cli.ContainerAttach(ctx, containerID, ...); on error one
\* diagnostic message is written and the handler returns.  On success the
\* handler starts `go readContainerOutput` and enters readWebSocketInput.
ContainerAttach(s) ==
    /\ ~Exited
    /\ pc[s] = "attach"
    /\ \E ok \in (IF ctxDone THEN {FALSE} ELSE Results) :
        /\ out' = [out EXCEPT ![s] = IF ok THEN "run" ELSE "none"]
        /\ diagnostics' = [diagnostics EXCEPT ![s] = IF ok THEN @ ELSE @ + 1]
        /\ pc' = [pc EXCEPT ![s] = IF ok THEN "relay" ELSE "teardown"]
    /\ UNCHANGED <<procVars, reg, containerID, env, stdinClosed, teardownCalls, removeCalls,
                   relayVars>>

\* Mutant of readWebSocketInput: the loop is left without the deferred
\* containerStdin.Close().
readWebSocketInputNoClose(s) ==
    /\ ~Exited
    /\ pc[s] = "relay"
    /\ pc' = [pc EXCEPT ![s] = "teardown"]
    /\ UNCHANGED <<procVars, reg, containerID, env, out, stdinClosed,
                   teardownCalls, removeCalls, diagnostics, relayVars>>

\* readWebSocketInput returns: conn.ReadMessage or containerStdin.Write
\* failed; the deferred containerStdin.Close() has run.
readWebSocketInput(s) ==
    /\ ~Exited
    /\ pc[s] = "relay"
    /\ stdinClosed' = [stdinClosed EXCEPT ![s] = TRUE]
    /\ pc' = [pc EXCEPT ![s] = "teardown"]
    /\ UNCHANGED <<procVars, reg, containerID, env, out, teardownCalls, removeCalls,
                   diagnostics, relayVars>>

\* The readContainerOutput goroutine returns: the scanner met end-of-stream
\* or a read error, or conn.WriteMessage failed.  Nobody waits for it.
readContainerOutput(s) ==
    /\ ~Exited
    /\ out[s] = "run"
    /\ out' = [out EXCEPT ![s] = "stop"]
    /\ UNCHANGED <<procVars, pc, reg, containerID, env, stdinClosed,
                   teardownCalls, removeCalls, diagnostics, relayVars>>

\* Results of ContainerKill and ContainerRemove{Force: true}.
TeardownOutcomes == IF ctxDone THEN {<<FALSE, FALSE>>}
                    ELSE Results \X Results

\* Mutant of stopAndRemoveContainer: it returns on the ContainerKill error
\* and never calls ContainerRemove.
stopAndRemoveContainerReturnOnKillError(s) ==
    /\ ~Exited
    /\ pc[s] = "teardown"
    /\ teardownCalls' = [teardownCalls EXCEPT ![s] = @ + 1]
    /\ \E r \in TeardownOutcomes :
        /\ removeCalls' = [removeCalls EXCEPT ![s] = IF r[1] THEN @ + 1 ELSE @]
        /\ env' = [env EXCEPT ![s] = IF r[1] /\ r[2] THEN "removed" ELSE @]
    /\ out' = [out EXCEPT ![s] = IF @ = "none" THEN "none" ELSE "closed"]
    /\ pc' = [pc EXCEPT ![s] = "wgdone"]
    /\ UNCHANGED <<procVars, reg, containerID, stdinClosed, diagnostics,
                   relayVars>>

\* Mutant of stopAndRemoveContainer: the cleanup is started with `go` and the
\* handler does not wait for it.
stopAndRemoveContainerDetached(s) ==
    /\ ~Exited
    /\ pc[s] = "teardown"
    /\ out' = [out EXCEPT ![s] = IF @ = "none" THEN "none" ELSE "closed"]
    /\ pc' = [pc EXCEPT ![s] = "wgdone"]
    /\ UNCHANGED <<procVars, reg, containerID, env, stdinClosed, teardownCalls,
                   removeCalls, diagnostics, relayVars>>

\* Mutant of stopAndRemoveContainer: the handler joins readContainerOutput
\* before it cleans up.
stopAndRemoveContainerAfterOutput(s) ==
    /\ ~Exited
    /\ pc[s] = "teardown"
    /\ out[s] # "run"
    /\ teardownCalls' = [teardownCalls EXCEPT ![s] = @ + 1]
    /\ removeCalls' = [removeCalls EXCEPT ![s] = @ + 1]
    /\ \E r \in TeardownOutcomes :
        env' = [env EXCEPT ![s] = IF r[2] THEN "removed" ELSE @]
    /\ out' = [out EXCEPT ![s] = IF @ = "none" THEN "none" ELSE "closed"]
    /\ pc' = [pc EXCEPT ![s] = "wgdone"]
    /\ UNCHANGED <<procVars, reg, containerID, stdinClosed, diagnostics,
                   relayVars>>

\* The deferred attachResp.Close() (when attached) and then the deferred
\* stopAndRemoveContainer(ctx, cli, containerID): kill, then remove, each
\* error only logged.  With the attach stream closed the output goroutine,
\* if it still runs, fails its next read and returns unobserved ("closed").
stopAndRemoveContainer(s) ==
    /\ ~Exited
    /\ pc[s] = "teardown"
    /\ teardownCalls' = [teardownCalls EXCEPT ![s] = @ + 1]
    /\ removeCalls' = [removeCalls EXCEPT ![s] = @ + 1]
    /\ \E r \in TeardownOutcomes :
        env' = [env EXCEPT ![s] = IF r[2] THEN "removed" ELSE @]
    /\ out' = [out EXCEPT ![s] = IF @ = "none" THEN "none" ELSE "closed"]
    /\ pc' = [pc EXCEPT ![s] = "wgdone"]
    /\ UNCHANGED <<procVars, reg, containerID, stdinClosed, diagnostics,
                   relayVars>>

\* The deferred activeSessions.Done()
ActiveSessionsDone(s) ==
    /\ ~Exited
    /\ pc[s] = "wgdone"
    /\ activeSessions' = activeSessions - 1
    /\ pc' = [pc EXCEPT ![s] = "inc"]
    /\ UNCHANGED <<maxConnections, mainpc, ctxDone, listening, cliClosed,
                   shutdownRequested, envVars, reg, containerID, env, out, stdinClosed,
                   teardownCalls, removeCalls, diagnostics, relayVars>>

\* The deferred maxConnections++ : the load
IncrementLoad(s) ==
    /\ ~Exited
    /\ pc[s] = "inc"
    /\ reg' = [reg EXCEPT ![s] = maxConnections]
    /\ pc' = [pc EXCEPT ![s] = "incw"]
    /\ UNCHANGED <<procVars, containerID, env, out, stdinClosed,
                   teardownCalls, removeCalls, diagnostics, relayVars>>

\* The deferred maxConnections++ : the store; then the deferred conn.Close().
IncrementStore(s) ==
    /\ ~Exited
    /\ pc[s] = "incw"
    /\ maxConnections' = reg[s] + 1
    /\ reg' = [reg EXCEPT ![s] = 0]
    /\ pc' = [pc EXCEPT ![s] = "done"]
    /\ UNCHANGED <<activeSessions, mainpc, ctxDone, listening, cliClosed,
                   shutdownRequested, envVars, containerID, env, out, stdinClosed,
                   teardownCalls, removeCalls, diagnostics, relayVars>>

\* ----------------------------------------------------------------------- main
\* <-stop : SIGINT or SIGTERM arrives.
Signal ==
    /\ mainpc = "serve"
    /\ shutdownRequested' = TRUE
    /\ mainpc' = "cancel"
    /\ UNCHANGED <<maxConnections, activeSessions, ctxDone, listening,
                   cliClosed, envVars, sessVars, relayVars>>

\* cancel()
Cancel ==
    /\ mainpc = "cancel"
    /\ ctxDone' = TRUE
    /\ mainpc' = "shutdown"
    /\ UNCHANGED <<maxConnections, activeSessions, listening, cliClosed,
                   shutdownRequested, envVars, sessVars, relayVars>>

\* server.Shutdown(ctx) with the ctx cancelled one line before: the listener
\* is closed; the call returns nil only if no tracked connection is busy, and
\* ctx.Err() otherwise, or the listener's close error.  An error is fatal:
\* log.Fatalf exits the process at once.
ServerShutdown ==
    /\ mainpc = "shutdown"
    /\ listening' = FALSE
    /\ \E ok \in Results :
        mainpc' = IF ~ok \/ (\E s \in Sessions : Tracked(s)) THEN "fatal" ELSE "wait"
    /\ UNCHANGED <<maxConnections, activeSessions, ctxDone, cliClosed,
                   shutdownRequested, envVars, sessVars, relayVars>>

\* activeSessions.Wait() returns when the counter is zero; it has no deadline.
ActiveSessionsWait ==
    /\ mainpc = "wait"
    /\ activeSessions = 0
    /\ mainpc' = "close"
    /\ UNCHANGED <<maxConnections, activeSessions, ctxDone, listening,
                   cliClosed, shutdownRequested, envVars, sessVars, relayVars>>

\* main returns: the deferred cli.Close() runs first.
CliClose ==
    /\ mainpc = "close"
    /\ cliClosed' = TRUE
    /\ mainpc' = "closed"
    /\ UNCHANGED <<maxConnections, activeSessions, ctxDone, listening,
                   shutdownRequested, envVars, sessVars, relayVars>>

\* main has returned: the process exits, whatever the goroutines are doing.
Exit ==
    /\ mainpc = "closed"
    /\ mainpc' = "exited"
    /\ UNCHANGED <<maxConnections, activeSessions, ctxDone, listening,
                   cliClosed, shutdownRequested, envVars, sessVars, relayVars>>

\* ------------------------------------------------------------- specification
RelayIdle ==
    /\ variant = "terminal"
    /\ stream = <<>> /\ delivered = <<>> /\ buf = <<>> /\ scanErr = "nil"
    /\ token = <<>> /\ opc = "off" /\ wsOut = <<>>
    /\ wsIn = <<>> /\ received = <<>> /\ message = <<>> /\ ipc = "off"
    /\ stdin = <<>>

Start ==
    /\ maxConnections = InitialMaxConnections
    /\ activeSessions = 0
    /\ mainpc = "serve"
    /\ ctxDone = FALSE
    /\ listening = TRUE
    /\ cliClosed = FALSE
    /\ shutdownRequested = FALSE
    /\ pc = [s \in Sessions |-> "idle"]
    /\ reg = [s \in Sessions |-> 0]
    /\ containerID = [s \in Sessions |-> FALSE]
    /\ env = [s \in Sessions |-> "none"]
    /\ out = [s \in Sessions |-> "none"]
    /\ stdinClosed = [s \in Sessions |-> FALSE]
    /\ teardownCalls = [s \in Sessions |-> 0]
    /\ removeCalls = [s \in Sessions |-> 0]
    /\ diagnostics = [s \in Sessions |-> 0]
    /\ RelayIdle

\* At most NumFaulty requests, with every failure possible.
Init ==
    /\ Start
    /\ clients = NumFaulty
    /\ faults = TRUE

\* One request more than the cap, on a healthy transport and backend.
AdmissionInit ==
    /\ Start
    /\ clients = NumSessions
    /\ faults = FALSE

handleWebSocket(s) ==
    \/ CapacityCheck(s)
    \/ Upgrade(s)
    \/ DecrementLoad(s)
    \/ DecrementStore(s)
    \/ ActiveSessionsAdd(s)
    \/ startInteractiveContainer(s)
    \/ ContainerAttach(s)
    \/ readWebSocketInput(s)
    \/ stopAndRemoveContainer(s)
    \/ ActiveSessionsDone(s)
    \/ IncrementLoad(s)
    \/ IncrementStore(s)

main ==
    \/ Signal
    \/ Cancel
    \/ ServerShutdown
    \/ ActiveSessionsWait
    \/ CliClose
    \/ Exit

\* The handlers and their goroutines.
Serve ==
    \/ \E s \in Sessions : handleWebSocket(s)
    \/ \E s \in Sessions : readContainerOutput(s)

Next ==
    \/ main
    \/ Serve

Spec == Init /\ [][Next]_vars

\* The server while main blocks on <-stop: no signal arrives.
AdmissionSpec == AdmissionInit /\ [][Serve]_vars

\* Steps that need nothing from outside the process: the Go scheduler runs
\* every runnable goroutine, and calls to the transport and the backend
\* return.  A client message or disconnect, the container's end-of-stream, a
\* new request and a signal are up to the environment: no fairness.
Internal(s) ==
    \/ Upgrade(s)
    \/ DecrementLoad(s)
    \/ DecrementStore(s)
    \/ ActiveSessionsAdd(s)
    \/ startInteractiveContainer(s)
    \/ ContainerAttach(s)
    \/ stopAndRemoveContainer(s)
    \/ ActiveSessionsDone(s)
    \/ IncrementLoad(s)
    \/ IncrementStore(s)

ShutdownSequence ==
    \/ Cancel
    \/ ServerShutdown
    \/ ActiveSessionsWait
    \/ CliClose
    \/ Exit

LiveSpec ==
    /\ Init
    /\ [][Next]_vars
    /\ WF_vars(ShutdownSequence)
    /\ \A s \in Sessions : WF_vars(Internal(s))

\* ---------------------------------------------------------------- data path
LF == "\n"
CR == "\r"

\* Bytes of the container output and of client messages.
OutBytes == {"a", LF, CR}
InBytes == {"a", "b"}

SeqsUpTo(S, n) == UNION {[1..k -> S] : k \in 0..n}

Chunks == SeqsUpTo(OutBytes, MaxChunkLen) \ {<<>>}
Messages == SeqsUpTo(InBytes, MaxMsgLen)

\* The diagnostic text streamLogs sends when logs.Read fails.
ErrorReadingLogs == <<"error reading logs: ">>

\* bufio's dropCR: drop one trailing \r.
dropCR(data) ==
    IF Len(data) > 0 /\ data[Len(data)] = CR
    THEN SubSeq(data, 1, Len(data) - 1)
    ELSE data

\* bufio.ScanLines, the default split function of bufio.NewScanner:
\* (advance, token, whether a token was found).
ScanLines(data, atEOF) ==
    LET nl == {i \in 1..Len(data) : data[i] = LF}
        i == CHOOSE j \in nl : \A k \in nl : j <= k
    IN  IF atEOF /\ data = <<>>
        THEN [advance |-> 0, token |-> <<>>, found |-> FALSE]
        ELSE IF nl # {}
        THEN [advance |-> i, token |-> dropCR(SubSeq(data, 1, i - 1)), found |-> TRUE]
        ELSE IF atEOF
        THEN [advance |-> Len(data), token |-> dropCR(data), found |-> TRUE]
        ELSE [advance |-> 0, token |-> <<>>, found |-> FALSE]

\* What scanner.Scan() finds in its buffer.
Split == ScanLines(buf, scanErr # "nil")

outVars == <<variant, stream, delivered, buf, scanErr, token, opc, wsOut>>
inVars == <<wsIn, received, message, ipc, stdin>>

\* scanner.Scan(): the buffer holds a token; it is handed to the loop body.
ScanToken ==
    /\ variant = "terminal" /\ opc = "scan"
    /\ (buf # <<>> \/ scanErr # "nil") /\ Split.found
    /\ token' = Split.token
    /\ buf' = SubSeq(buf, Split.advance + 1, Len(buf))
    /\ opc' = "write"
    /\ UNCHANGED <<variant, stream, delivered, scanErr, wsOut, inVars,
                   procVars, sessVars>>

\* scanner.Scan(): no token yet and no error: one Read of the attach stream
\* is appended to the buffer; end-of-stream or a read error is remembered.
ScanRead ==
    /\ variant = "terminal" /\ opc = "scan"
    /\ scanErr = "nil" /\ (buf = <<>> \/ ~Split.found)
    /\ \/ /\ stream # <<>>
          /\ buf' = buf \o Head(stream)
          /\ delivered' = Append(delivered, Head(stream))
          /\ stream' = Tail(stream)
          /\ UNCHANGED scanErr
       \/ /\ stream = <<>>
          /\ scanErr' = "EOF"
          /\ UNCHANGED <<buf, delivered, stream>>
       \/ /\ scanErr' = "error"
          /\ UNCHANGED <<buf, delivered, stream>>
    /\ UNCHANGED <<variant, token, opc, wsOut, inVars, procVars, sessVars>>

\* scanner.Scan() returns false: the stream has ended and nothing is left.
\* readContainerOutput logs scanner.Err() and returns.
ScanEnd ==
    /\ variant = "terminal" /\ opc = "scan"
    /\ scanErr # "nil" /\ ~Split.found
    /\ buf' = <<>>
    /\ opc' = "done"
    /\ UNCHANGED <<variant, stream, delivered, scanErr, token, wsOut, inVars,
                   procVars, sessVars>>

\* conn.WriteMessage(websocket.TextMessage, scanner.Bytes()); an error ends
\* the loop.
WriteMessage ==
    /\ variant = "terminal" /\ opc = "write"
    /\ \E ok \in BOOLEAN :
        /\ wsOut' = IF ok THEN Append(wsOut, token) ELSE wsOut
        /\ opc' = IF ok THEN "scan" ELSE "done"
    /\ token' = <<>>
    /\ UNCHANGED <<variant, stream, delivered, buf, scanErr, inVars,
                   procVars, sessVars>>

\* streamLogs: n, err := logs.Read(buf); on an error (end-of-stream
\* included) a diagnostic message is written and the loop ends.
streamLogsRead ==
    /\ variant = "logs" /\ opc = "read"
    /\ \/ /\ stream # <<>>
          /\ token' = Head(stream)
          /\ delivered' = Append(delivered, Head(stream))
          /\ stream' = Tail(stream)
          /\ opc' = "write"
          /\ UNCHANGED wsOut
       \/ /\ \E ok \in BOOLEAN :
                wsOut' = IF ok THEN Append(wsOut, ErrorReadingLogs) ELSE wsOut
          /\ opc' = "done"
          /\ UNCHANGED <<token, delivered, stream>>
    /\ UNCHANGED <<variant, buf, scanErr, inVars, procVars, sessVars>>

\* streamLogs: conn.WriteMessage(websocket.TextMessage, buf[:n])
streamLogsWrite ==
    /\ variant = "logs" /\ opc = "write"
    /\ \E ok \in BOOLEAN :
        /\ wsOut' = IF ok THEN Append(wsOut, token) ELSE wsOut
        /\ opc' = IF ok THEN "read" ELSE "done"
    /\ token' = <<>>
    /\ UNCHANGED <<variant, stream, delivered, buf, scanErr, inVars,
                   procVars, sessVars>>

\* append(message, '\n')
FrameNoTerminator(m) == m

FrameInput(m) == Append(m, LF)

\* readWebSocketInput: _, message, err := conn.ReadMessage(); an error (the
\* client went away) ends the loop.
ReadMessage ==
    /\ ipc = "read"
    /\ \/ /\ wsIn # <<>>
          /\ message' = Head(wsIn)
          /\ received' = Append(received, Head(wsIn))
          /\ wsIn' = Tail(wsIn)
          /\ ipc' = "write"
       \/ /\ ipc' = "closed"
          /\ UNCHANGED <<message, received, wsIn>>
    /\ UNCHANGED <<stdin, outVars, procVars, sessVars>>

\* readWebSocketInput: containerStdin.Write(append(message, '\n')); an error
\* ends the loop.  Leaving the loop runs the deferred containerStdin.Close().
StdinWrite ==
    /\ ipc = "write"
    /\ \E ok \in BOOLEAN :
        /\ stdin' = IF ok THEN Append(stdin, FrameInput(message)) ELSE stdin
        /\ ipc' = IF ok THEN "read" ELSE "closed"
    /\ message' = <<>>
    /\ UNCHANGED <<wsIn, received, outVars, procVars, sessVars>>

\* One session has been admitted, provisioned and attached.
Attached ==
    /\ maxConnections = InitialMaxConnections - 1
    /\ activeSessions = 1
    /\ mainpc = "serve"
    /\ ctxDone = FALSE
    /\ listening = TRUE
    /\ cliClosed = FALSE
    /\ shutdownRequested = FALSE
    /\ clients = NumFaulty
    /\ faults = TRUE
    /\ pc = [s \in Sessions |-> IF s = 1 THEN "relay" ELSE "idle"]
    /\ reg = [s \in Sessions |-> 0]
    /\ containerID = [s \in Sessions |-> s = 1]
    /\ env = [s \in Sessions |-> IF s = 1 THEN "running" ELSE "none"]
    /\ out = [s \in Sessions |-> IF s = 1 THEN "run" ELSE "none"]
    /\ stdinClosed = [s \in Sessions |-> FALSE]
    /\ teardownCalls = [s \in Sessions |-> 0]
    /\ removeCalls = [s \in Sessions |-> 0]
    /\ diagnostics = [s \in Sessions |-> 0]

\* The outbound direction of the attached session, for every output stream.
OutboundInit ==
    /\ Attached
    /\ variant \in {"terminal", "logs"}
    /\ stream \in SeqsUpTo(Chunks, MaxChunks)
    /\ delivered = <<>> /\ buf = <<>> /\ scanErr = "nil" /\ token = <<>>
    /\ opc = IF variant = "terminal" THEN "scan" ELSE "read"
    /\ wsOut = <<>>
    /\ wsIn = <<>> /\ received = <<>> /\ message = <<>> /\ ipc = "off"
    /\ stdin = <<>>

OutboundNext ==
    \/ ScanToken
    \/ ScanRead
    \/ ScanEnd
    \/ WriteMessage
    \/ streamLogsRead
    \/ streamLogsWrite

OutboundSpec == OutboundInit /\ [][OutboundNext]_vars

\* The inbound direction of the attached session, for every client input.
InboundInit ==
    /\ Attached
    /\ variant = "terminal"
    /\ stream = <<>> /\ delivered = <<>> /\ buf = <<>> /\ scanErr = "nil"
    /\ token = <<>> /\ opc = "off" /\ wsOut = <<>>
    /\ wsIn \in SeqsUpTo(Messages, MaxMsgs)
    /\ received = <<>> /\ message = <<>> /\ ipc = "read"
    /\ stdin = <<>>

InboundNext ==
    \/ ReadMessage
    \/ StdinWrite

InboundSpec == InboundInit /\ [][InboundNext]_vars

\* ------------------------------------------------------------------- claims
\* C1: the number of sessions that hold a ticket (between the stored
\* decrement and the stored increment of maxConnections) never exceeds the
\* cap of 3.
AdmissionBound == Cardinality(Holders) <= InitialMaxConnections

\* C2: whenever no session is in progress, the available-ticket counter
\* equals the cap again.
TicketConservation ==
    (\A s \in Sessions : pc[s] = "idle" \/ Returned(s))
        => maxConnections = InitialMaxConnections

\* C3: while 3 sessions are relaying, a request that arrives is answered with
\* the busy response: it is not let past the capacity check.
RejectionUnderCapacity ==
    [][\A s \in Sessions :
          (Cardinality(Relaying) = InitialMaxConnections
              /\ pc[s] = "idle" /\ pc'[s] # "idle")
          => pc'[s] = "denied"]_vars

\* C4: stopAndRemoveContainer is never invoked twice for a session, and a
\* session whose container was provisioned has had it invoked exactly once
\* when it leaves the WaitGroup, hence before its ticket is released and
\* before it is done.
TeardownGuarantee ==
    \A s \in Sessions :
        /\ teardownCalls[s] <= 1
        /\ (containerID[s] /\ pc[s] \in {"wgdone", "inc", "incw", "done"})
              => teardownCalls[s] = 1

\* C4 witness: a session whose attach failed after a successful provisioning
\* is done, with one teardown call.
TeardownGuaranteeWitness ==
    \E s \in Sessions :
        /\ pc[s] = "done" /\ containerID[s] /\ out[s] = "none"
        /\ diagnostics[s] = 1 /\ teardownCalls[s] = 1

\* C5: the process has not exited while a session that acquired its ticket
\* has not released it (the code has no drain deadline that could excuse it).
DrainBeforeExit == Exited => Holders = {}

\* C6: once the shutdown request has been received no session acquires a
\* ticket any more.
DrainingRefusesAdmission ==
    [][shutdownRequested =>
          \A s \in Sessions : HoldsTicket(s)' => HoldsTicket(s)]_vars

\* C7: after a shutdown request the process eventually exits, whatever the
\* sessions do.
BoundedDrain == shutdownRequested ~> Exited

\* C8: on the interactive session's connection every message is the
\* corresponding chunk of the container output, unchanged: one message per
\* chunk, in order.
RelayFidelity ==
    variant = "terminal" =>
        /\ Len(wsOut) <= Len(delivered)
        /\ \A i \in 1..Len(wsOut) : wsOut[i] = delivered[i]

\* C9: the container's stdin has received exactly the client messages read
\* so far, each followed by "\n", one write per message and in order; only
\* the message still being written, or the one whose write failed, is missing.
InputFraming ==
    /\ Len(stdin) <= Len(received)
    /\ \A i \in 1..Len(stdin) : stdin[i] = received[i] \o <<LF>>
    /\ ipc = "read" => Len(stdin) = Len(received)
    /\ ipc = "write" => Len(stdin) = Len(received) - 1 /\ message = received[Len(received)]
    /\ ipc = "closed" => Len(stdin) >= Len(received) - 1

\* C9 witness: the client sent "a" then "b" and stdin received "a\n", "b\n".
InputFramingWitness ==
    /\ received = << <<"a">>, <<"b">> >>
    /\ stdin = << <<"a", LF>>, <<"b", LF>> >>
    /\ ipc = "read"

\* C10: a relaying session whose outbound direction has stopped eventually
\* is done, unless the process exits first, without any client action.
EitherDirectionEnds ==
    \A s \in Sessions :
        (pc[s] = "relay" /\ out[s] = "stop") ~> (pc[s] = "done" \/ Exited)

\* The handler is past provisioning, which failed: no container ID.
ProvisioningFailed(s) ==
    ~containerID[s] /\ pc[s] \in {"wgdone", "inc", "incw", "done"}

\* C11: a session whose create or start failed has written exactly one
\* diagnostic message, has not attached, has started no relay direction and
\* has made no stopAndRemoveContainer call; until it is done, with its ticket
\* released, its handler can always take its next step while the process
\* runs; and the failure itself does not stop the process.
ProvisioningFailurePath ==
    /\ [](\A s \in Sessions :
            ProvisioningFailed(s) =>
                /\ diagnostics[s] = 1
                /\ out[s] = "none" /\ ~stdinClosed[s]
                /\ teardownCalls[s] = 0 /\ removeCalls[s] = 0
                /\ pc[s] = "done" \/ Exited \/ ENABLED Internal(s))
    /\ [][\A s \in Sessions :
            (pc[s] = "prov" /\ pc'[s] # "prov") => mainpc' = mainpc]_vars

\* C11 witness: the first session's start failed and it is done with its
\* ticket released, while the second session relays.
ProvisioningFailureWitness ==
    /\ pc[1] = "done" /\ env[1] = "created" /\ ~containerID[1]
    /\ diagnostics[1] = 1 /\ teardownCalls[1] = 0
    /\ pc[2] = "relay" /\ ~Exited

\* The handler makes a backend call: create and start, attach, or kill and
\* remove; all are passed the ctx of main.
BackendCall(s) ==
    /\ pc[s] \in {"prov", "attach", "teardown"}
    /\ pc'[s] # pc[s]

\* C12: no backend call of a session is made with a ctx that the shutdown
\* sequence has already cancelled.
ShutdownOnlyWaits ==
    [][\A s \in Sessions : BackendCall(s) => ~ctxDone]_vars

\* The handler has left the relay: its deferred calls run, or it has returned.
TearingDownOrDone(s) == pc[s] \in {"teardown", "wgdone", "inc", "incw", "done"}

\* C13: provisioning precedes attach, attach precedes the relay, and no relay
\* task of a session is still running once the session is tearing down or
\* done.
LifecycleOrdering ==
    \A s \in Sessions :
        /\ pc[s] \in {"attach", "relay"} => containerID[s]
        /\ out[s] # "none" => containerID[s] /\ pc[s] \notin {"prov", "attach"}
        /\ TearingDownOrDone(s) => out[s] # "run"

\* The session was attached: its relay directions were started.
WasAttached(s) == out[s] # "none"

\* C14: once the inbound direction of an attached session has returned, the
\* container's stdin is closed; in particular it is closed whenever
\* stopAndRemoveContainer has been invoked for an attached session.
InboundStopClosesInput ==
    \A s \in Sessions :
        /\ (WasAttached(s) /\ TearingDownOrDone(s)) => stdinClosed[s]
        /\ (WasAttached(s) /\ teardownCalls[s] > 0) => stdinClosed[s]
        /\ stdinClosed[s] => WasAttached(s) /\ pc[s] # "relay"

\* C14 witness: an attached session's inbound direction stopped and its
\* teardown has been invoked, with stdin closed.
InboundStopClosesInputWitness ==
    \E s \in Sessions :
        /\ pc[s] = "wgdone" /\ out[s] = "closed"
        /\ stdinClosed[s] /\ teardownCalls[s] = 1

\* C15: every invocation of stopAndRemoveContainer, whatever ContainerKill
\* and ContainerRemove return, makes the remove call, sends nothing to the
\* client, leaves the process running and hands over to the deferred Done;
\* from there until it is done (ticket released, connection closed) the
\* handler can always take its next step while the process runs.
TeardownBestEffort ==
    /\ [][\A s \in Sessions :
            (pc[s] = "teardown" /\ pc'[s] # "teardown") =>
                /\ teardownCalls'[s] = teardownCalls[s] + 1
                /\ removeCalls'[s] = removeCalls[s] + 1
                /\ diagnostics'[s] = diagnostics[s]
                /\ mainpc' = mainpc
                /\ pc'[s] = "wgdone"]_vars
    /\ [](\A s \in Sessions :
            teardownCalls[s] > 0 =>
                /\ removeCalls[s] = teardownCalls[s]
                /\ pc[s] \in {"wgdone", "inc", "incw", "done"}
                /\ pc[s] = "done" \/ Exited \/ ENABLED Internal(s))

\* C15 witness: the backend failed the teardown of a relayed session (the ctx
\* was not cancelled, the container is still there); the session is done,
\* nothing was sent to the client and the process runs.
TeardownBestEffortWitness ==
    \E s \in Sessions :
        /\ pc[s] = "done" /\ teardownCalls[s] = 1 /\ removeCalls[s] = 1
        /\ env[s] = "running" /\ ~ctxDone
        /\ diagnostics[s] = 0 /\ ~Exited

\* C16: under LiveSpec, once readWebSocketInput of a relaying session has
\* returned (the read on the client's connection failed), the session
\* eventually has performed terminate-and-remove, released its ticket and is
\* done, whether or not readContainerOutput still runs and with nothing
\* written to the connection, unless the process exits first.
ClientDisconnectCleanup ==
    \A s \in Sessions :
        (pc[s] = "teardown" /\ stdinClosed[s])
            ~> \/ /\ pc[s] = "done" /\ ~HoldsTicket(s)
                  /\ teardownCalls[s] = 1 /\ removeCalls[s] = 1
                  /\ diagnostics[s] = 0
               \/ Exited

\* C16 witness: a session whose input relay returned is done after its
\* teardown, the process still runs and cancel() has not been called.
ClientDisconnectCleanupWitness ==
    \E s \in Sessions :
        /\ pc[s] = "done" /\ stdinClosed[s] /\ out[s] = "closed"
        /\ teardownCalls[s] = 1 /\ env[s] = "removed"
        /\ mainpc = "serve"

\* C17: cli.Close() is reached only after activeSessions.Wait() has returned,
\* and no backend call of a session is made once cli.Close() has run.
BackendHandleOutlivesSessions ==
    /\ [][cliClosed' /\ ~cliClosed => mainpc = "close"]_vars
    /\ [][\A s \in Sessions : BackendCall(s) => ~cliClosed]_vars

\* C18: a session whose startInteractiveContainer succeeded is counted by
\* activeSessions and holds its ticket for as long as its
\* stopAndRemoveContainer has not returned; once it is no longer counted, or
\* its ticket is back, kill and remove have been called exactly once.
ReleaseOrder ==
    /\ activeSessions = Cardinality({s \in Sessions : Registered(s)})
    /\ \A s \in Sessions :
        containerID[s] =>
            /\ teardownCalls[s] <= 1 /\ removeCalls[s] = teardownCalls[s]
            /\ teardownCalls[s] = 0 => Registered(s) /\ HoldsTicket(s)

\* C18 witness: the exit path through a failed ContainerAttach; the session
\* has torn its container down and then released its ticket.
ReleaseOrderWitness ==
    \E s \in Sessions :
        /\ pc[s] = "done" /\ containerID[s] /\ out[s] = "none"
        /\ teardownCalls[s] = 1 /\ diagnostics[s] = 1

\* C19: in a session that is done, every container the backend created for
\* it (whether or not it was started) has had stopAndRemoveContainer called
\* on it.
NoEnvironmentLeak ==
    \A s \in Sessions :
        (pc[s] = "done" /\ env[s] # "none") =>
            teardownCalls[s] >= 1 /\ removeCalls[s] >= 1

\* C20: maxConnections stays within 0..InitialMaxConnections and equals
\* InitialMaxConnections minus the number of requests holding a ticket.
CounterRange ==
    /\ maxConnections \in 0..InitialMaxConnections
    /\ maxConnections = InitialMaxConnections - Cardinality(Holders)

====
